---- MODULE Spec2Model ----
(***************************************************************************)
(* UIRE, the Universal Intent Resolution Engine: the token-bucket rate     *)
(* limiter, the preference and consent stores, the ambiguity detector, the *)
(* clarifier and the intent policy, with the HTTP handlers that wire them. *)
(*                                                                         *)
(* Text that the code transforms or searches (queries, answer values,      *)
(* prompts) is a sequence of one-character strings, so that lower(),       *)
(* upper(), strip(), substring tests and the regular expressions are       *)
(* computed character by character.  Text that the code only compares for  *)
(* equality (dictionary keys, factor tags, labels) is a TLA+ string.       *)
(***************************************************************************)
EXTENDS Integers, Sequences, FiniteSets, TLC

VARIABLES
    RATE_LIMIT,     \* main.py: requests per second, read from the environment
    mono,           \* time.monotonic(), in ticks of 1/TicksPerSecond second
    wall,           \* int(time.time() * 1000), the wall clock in milliseconds
    buckets,        \* main.py _buckets: client -> [tokens, last]
    burst,          \* per client, the calls of check_rate at the instant of its first
    counters,       \* telemetry.py _counters
    preferences,    \* table preferences: <<user_id, key>> -> [value, expires_at]
    consent,        \* table consent: user_id -> [accepted, ts]
    log_lines,      \* telemetry.py: the number of lines log_event appended to LOG_PATH
    req,            \* the request served by the last step
    resp,           \* the response it produced
    tasks,          \* the calls in progress, each with its local variables
    db_fault        \* sqlite3 raises on every statement (the database is unusable)

vars ==
    <<RATE_LIMIT, mono, wall, buckets, burst, counters, log_lines, preferences, consent,
      req, resp, tasks, db_fault>>

-----------------------------------------------------------------------------
(* The bounds of the model *)

\* RATE_LIMIT is drawn from 1..MaxRateLimit
MaxRateLimit == 2
\* the monotonic clock stops at MaxMono ticks
MaxMono == 2
\* the wall clock stops at MaxWall milliseconds
MaxWall == 2
\* log_event appends at most MaxEvents lines
MaxEvents == 2
\* the latency of one detection is within 0..MaxLatency milliseconds
MaxLatency == 1
\* PreferenceStore.set is called with ttl_ms None or within 1..MaxTtl
MaxTtl == 1
MaxFactors == 3
MaxTasks == 3

-----------------------------------------------------------------------------
(* Text helpers *)

\* Python's None
None == <<"None">>

Min(a, b) == IF a <= b THEN a ELSE b
Max(a, b) == IF a >= b THEN a ELSE b

UpperLetters == <<"A", "B", "C", "D", "E", "F", "G", "H", "I", "J", "K", "L", "M", "N", "O", "P", "Q", "R", "S", "T", "U", "V", "W", "X", "Y", "Z">>
LowerLetters == <<"a", "b", "c", "d", "e", "f", "g", "h", "i", "j", "k", "l", "m", "n", "o", "p", "q", "r", "s", "t", "u", "v", "w", "x", "y", "z">>
Digits == {"0", "1", "2", "3", "4", "5", "6", "7", "8", "9"}
Range(s) == {s[i] : i \in 1..Len(s)}
UpperSet == Range(UpperLetters)
LowerSet == Range(LowerLetters)

\* str.strip() and the regular expressions' \s
Whitespace == {" ", "\t", "\n", "\r", "\f"}

LowerChar(c) ==
    IF c \in UpperSet
    THEN LowerLetters[CHOOSE i \in 1..26 : UpperLetters[i] = c]
    ELSE c

UpperChar(c) ==
    IF c \in LowerSet
    THEN UpperLetters[CHOOSE i \in 1..26 : LowerLetters[i] = c]
    ELSE c

\* str.lower(), str.upper()
Lower(s) == SubSeq([i \in 1..Len(s) |-> LowerChar(s[i])], 1, Len(s))
Upper(s) == SubSeq([i \in 1..Len(s) |-> UpperChar(s[i])], 1, Len(s))

\* a strip that knows the space only
StripSpaces(s) ==
    LET keep == {i \in 1..Len(s) : s[i] # " "}
    IN IF keep = {} THEN <<>>
       ELSE LET lo == CHOOSE i \in keep : \A j \in keep : i <= j
                hi == CHOOSE i \in keep : \A j \in keep : i >= j
            IN SubSeq(s, lo, hi)

\* str.strip(): drop the leading and the trailing whitespace
Strip(s) ==
    LET keep == {i \in 1..Len(s) : s[i] \notin Whitespace}
    IN IF keep = {} THEN <<>>
       ELSE LET lo == CHOOSE i \in keep : \A j \in keep : i <= j
                hi == CHOOSE i \in keep : \A j \in keep : i >= j
            IN SubSeq(s, lo, hi)

\* pat occurs in s starting at position i
LitAt(s, i, pat) ==
    /\ i >= 1
    /\ i + Len(pat) - 1 <= Len(s)
    /\ SubSeq(s, i, i + Len(pat) - 1) = pat

\* Python's  pat in s
Contains(s, pat) == \E i \in 1..(Len(s) + 1) : LitAt(s, i, pat)

\* the regular expressions' \w
WordChars == LowerSet \cup UpperSet \cup Digits \cup {"_"}
IsWordChar(c) == c \in WordChars

WordAt(s, i) == i >= 1 /\ i <= Len(s) /\ IsWordChar(s[i])

\* the regular expressions' \b, between s[i-1] and s[i]
Boundary(s, i) == WordAt(s, i - 1) # WordAt(s, i)

\* re.search(r"\b(w1|w2|...)\b", s)
WordSearch(s, words) ==
    \E w \in words : \E i \in 1..(Len(s) + 1) :
        LitAt(s, i, w) /\ Boundary(s, i) /\ Boundary(s, i + Len(w))

\* the subsequence of s at the positions idx, in order
Pick(s, idx) ==
    [n \in 1..Cardinality(idx) |->
        s[CHOOSE i \in idx : Cardinality({j \in idx : j < i}) = n - 1]]

\* s[i..i+n-1] is a run of n >= 1 characters of set cs
RunAt(s, i, n, cs) ==
    /\ n >= 1
    /\ i >= 1
    /\ i + n - 1 <= Len(s)
    /\ \A j \in i..(i + n - 1) : s[j] \in cs

-----------------------------------------------------------------------------
(* models/ambiguity_detector.py *)

VAGUE_TERMS == {<<"b", "e", "s", "t">>, <<"c", "h", "e", "a", "p", "e", "s", "t">>, <<"f", "a", "s", "t", "e", "s", "t">>, <<"q", "u", "i", "c", "k", "e", "s", "t">>, <<"i", "d", "e", "a", "l">>, <<"p", "e", "r", "f", "e", "c", "t">>}
PRONOUNS == {<<"t", "h", "i", "s">>, <<"t", "h", "a", "t">>, <<"t", "h", "e", "s", "e">>, <<"t", "h", "o", "s", "e">>, <<"i", "t">>, <<"t", "h", "e", "y">>}
REGIONS == {<<"i", "n", "d", "i", "a">>, <<"u", "s">>, <<"u", "s", "a">>, <<"e", "u", "r", "o", "p", "e">>, <<"e", "u">>, <<"u", "k">>, <<"c", "a", "n", "a", "d", "a">>}

\* r"\b(file|document|text|paragraph|image|content|paper)\b"
AnchorSearch(q) ==
    WordSearch(q, {<<"f", "i", "l", "e">>, <<"d", "o", "c", "u", "m", "e", "n", "t">>, <<"t", "e", "x", "t">>, <<"p", "a", "r", "a", "g", "r", "a", "p", "h">>, <<"i", "m", "a", "g", "e">>, <<"c", "o", "n", "t", "e", "n", "t">>, <<"p", "a", "p", "e", "r">>})

\* r"\bsummar(ize|ise|y)\b"
SummarSearch(q) == WordSearch(q, {<<"s", "u", "m", "m", "a", "r", "i", "z", "e">>, <<"s", "u", "m", "m", "a", "r", "i", "s", "e">>, <<"s", "u", "m", "m", "a", "r", "y">>})

\* r"for\s+(kids|children|adults|experts|beginners)"
AudienceSearch(q) ==
    \E i \in 1..Len(q) :
        /\ LitAt(q, i, <<"f", "o", "r">>)
        /\ \E n \in 1..Len(q) :
              /\ RunAt(q, i + 3, n, Whitespace)
              /\ \E w \in {<<"k", "i", "d", "s">>, <<"c", "h", "i", "l", "d", "r", "e", "n">>, <<"a", "d", "u", "l", "t", "s">>, <<"e", "x", "p", "e", "r", "t", "s">>, <<"b", "e", "g", "i", "n", "n", "e", "r", "s">>} :
                    LitAt(q, i + 3 + n, w)

\* r"\b(short|brief|medium|long|~?\d+ words?)\b"
LengthSearch(q) ==
    \/ WordSearch(q, {<<"s", "h", "o", "r", "t">>, <<"b", "r", "i", "e", "f">>, <<"m", "e", "d", "i", "u", "m">>, <<"l", "o", "n", "g">>})
    \/ \E i \in 1..Len(q) :
          /\ Boundary(q, i)
          /\ \E t \in {0, 1} :
                /\ t = 1 => LitAt(q, i, <<"~">>)
                /\ \E n \in 1..Len(q) :
                      /\ RunAt(q, i + t, n, Digits)
                      /\ \E w \in {<<" ", "w", "o", "r", "d">>, <<" ", "w", "o", "r", "d", "s">>} :
                            /\ LitAt(q, i + t + n, w)
                            /\ Boundary(q, i + t + n + Len(w))

\* r"to\s+[a-z]+|into\s+[a-z]+"
LanguageSearch(q) ==
    \E p \in {<<"t", "o">>, <<"i", "n", "t", "o">>} : \E i \in 1..Len(q) :
        /\ LitAt(q, i, p)
        /\ \E n \in 1..Len(q) :
              /\ RunAt(q, i + Len(p), n, Whitespace)
              /\ RunAt(q, i + Len(p) + n, 1, LowerSet)

\* r"\b(recommend|best|suggest)\b"
RecommendSearch(q) == WordSearch(q, {<<"r", "e", "c", "o", "m", "m", "e", "n", "d">>, <<"b", "e", "s", "t">>, <<"s", "u", "g", "g", "e", "s", "t">>})

\* list(dict.fromkeys(factors)): first occurrences, in order
Dedupe(fs) == Pick(fs, {i \in 1..Len(fs) : \A j \in 1..(i - 1) : fs[j] # fs[i]})

\* round(min(1.0, 0.3 + 0.2 * n), 2) if n > 0 else 0.0, in hundredths
Score(n) == IF n > 0 THEN Min(100, 30 + 20 * n) ELSE 0

\* the factors appended by the rules of detect, in the order of the code
DetectFactors(q) ==
    (IF \E term \in VAGUE_TERMS : Contains(q, term)
        THEN <<"criteria_missing">> ELSE <<>>)
    \o (IF WordSearch(q, PRONOUNS) /\ ~AnchorSearch(q)
        THEN <<"referent_missing">> ELSE <<>>)
    \o (IF SummarSearch(q) /\ ~AudienceSearch(q)
        THEN <<"audience_missing">> ELSE <<>>)
    \o (IF SummarSearch(q) /\ ~LengthSearch(q)
        THEN <<"length_missing">> ELSE <<>>)
    \o (IF Contains(q, <<"t", "r", "a", "n", "s", "l", "a", "t", "e">>) /\ ~LanguageSearch(q)
        THEN <<"language_missing">> ELSE <<>>)
    \o (IF RecommendSearch(q) /\ ~(\E r \in REGIONS : Contains(q, r))
        THEN <<"region_missing">> ELSE <<>>)

\* AmbiguityDetector.detect; score in hundredths
detect(query) ==
    LET q == Lower(Strip(query))
        factors == DetectFactors(q)
    IN IF q = <<>>
       THEN [ambiguous |-> TRUE, score |-> 100, factors |-> <<"empty_query">>]
       ELSE [ambiguous |-> factors # <<>>,
             score |-> Score(Len(factors)),
             factors |-> Dedupe(factors)]

\* DetectRequest: query: str = Field(..., min_length=1)
DetectRequestValid(query) == Len(query) >= 1

-----------------------------------------------------------------------------
(* models/clarifier.py *)

Opt(id, label) == [id |-> id, label |-> label]

\* the factors that generate maps to a question
MappedFactors ==
    {"criteria_missing", "region_missing", "audience_missing", "length_missing",
     "language_missing"}

\* the dictionary that generate appends for factor f, before its id is drawn
QuestionFor(f) ==
    CASE f = "criteria_missing" ->
           [question |-> "What matters most?", type |-> "single_choice",
            options |-> <<Opt(<<"f", "e", "e", "s">>, "Lowest fees"), Opt(<<"s", "p", "e", "e", "d">>, "Fast process"),
                          Opt(<<"t", "r", "u", "s", "t">>, "High trust/brand")>>,
            default |-> <<"f", "e", "e", "s">>]
      [] f = "region_missing" ->
           [question |-> "Which region?", type |-> "single_choice",
            options |-> <<Opt(<<"I", "N">>, "India"), Opt(<<"U", "S">>, "United States"),
                          Opt(<<"E", "U">>, "Europe")>>,
            default |-> <<"I", "N">>]
      [] f = "audience_missing" ->
           [question |-> "Who is the audience?", type |-> "single_choice",
            options |-> <<Opt(<<"s", "i", "m", "p", "l", "e">>, "Layperson"), Opt(<<"e", "x", "p", "e", "r", "t">>, "Expert"),
                          Opt(<<"k", "i", "d", "s">>, "Kids")>>,
            default |-> <<"s", "i", "m", "p", "l", "e">>]
      [] f = "length_missing" ->
           [question |-> "Preferred length?", type |-> "single_choice",
            options |-> <<Opt(<<"s", "h", "o", "r", "t">>, "~150 words"), Opt(<<"m", "e", "d", "i", "u", "m">>, "~300 words"),
                          Opt(<<"l", "o", "n", "g">>, "~600 words")>>,
            default |-> <<"s", "h", "o", "r", "t">>]
      [] f = "language_missing" ->
           [question |-> "Target language?", type |-> "single_choice",
            options |-> <<Opt(<<"E", "N">>, "English"), Opt(<<"H", "I">>, "Hindi"),
                          Opt(<<"E", "S">>, "Spanish"), Opt(<<"U", "R">>, "Urdu")>>,
            default |-> <<"E", "N">>]

\* a loop in which every factor takes one of the two slots, mapped or not
AppendQuestionsSlots(factors) ==
    LET slots == SubSeq(factors, 1, Min(2, Len(factors)))
        mapped == Pick(slots, {i \in 1..Len(slots) : slots[i] \in MappedFactors})
    IN [n \in 1..Len(mapped) |-> QuestionFor(mapped[n])]

\* the loop of generate: one question per mapped factor, in input order
AppendQuestions(factors) ==
    LET mapped == Pick(factors, {i \in 1..Len(factors) : factors[i] \in MappedFactors})
    IN [n \in 1..Len(mapped) |-> QuestionFor(mapped[n])]

\* qs[:2]
FirstTwo(qs) == SubSeq(qs, 1, Min(2, Len(qs)))

\* Clarifier.generate; ids[i] is the value _qid() returned for the i-th question
generate(query, factors, ids) ==
    LET qs == FirstTwo(AppendQuestions(factors))
    IN [i \in 1..Len(qs) |->
          [id |-> ids[i], question |-> qs[i].question, type |-> qs[i].type,
           options |-> qs[i].options, default |-> qs[i].default]]

-----------------------------------------------------------------------------
(* models/policy.py *)

HIGH_RISK_KEYWORDS == {<<"m", "e", "d", "i", "c", "a", "l">>, <<"f", "i", "n", "a", "n", "c", "e">>, <<"l", "e", "g", "a", "l">>}

infer_task(query) ==
    LET q == Lower(query)
    IN IF Contains(q, <<"t", "r", "a", "n", "s", "l", "a", "t", "e">>) THEN "translate"
       ELSE IF SummarSearch(q) THEN "summarize"
       ELSE IF \E k \in {<<"b", "e", "s", "t">>, <<"r", "e", "c", "o", "m", "m", "e", "n", "d">>, <<"s", "u", "g", "g", "e", "s", "t">>} : Contains(q, k)
            THEN "recommend"
       ELSE "general"

risk_tier(query) ==
    LET q == Lower(query)
    IN IF \E k \in HIGH_RISK_KEYWORDS : Contains(q, k) THEN "high" ELSE "low"

\* dict.get(k): the value, or None
Get(d, k) == IF k \in DOMAIN d THEN d[k] ELSE None

\* Python's  a or b  on Optional[str]: None and "" are falsy
Or(a, b) == IF a = None \/ a = <<>> THEN b ELSE a

\* a merge in which the stored preferences overlay the answers
MergePrefsWin(prefs, answers) ==
    [k \in DOMAIN prefs \cup DOMAIN answers |->
        IF k \in DOMAIN prefs THEN prefs[k] ELSE answers[k]]

\* merged = dict(prefs); merged.update(answers)
Merge(prefs, answers) ==
    [k \in DOMAIN prefs \cup DOMAIN answers |->
        IF k \in DOMAIN answers THEN answers[k] ELSE prefs[k]]

\* the region alias table of build_intent
NormaliseRegion(region) ==
    CASE region = <<"I", "N">> -> <<"I", "N">>
      [] region = <<"I", "N", "D", "I", "A">> -> <<"I", "N">>
      [] region = <<"U", "S">> -> <<"U", "S">>
      [] region = <<"U", "S", "A">> -> <<"U", "S">>
      [] region = <<"E", "U">> -> <<"E", "U">>
      [] region = <<"E", "U", "R", "O", "P", "E">> -> <<"E", "U">>
      [] OTHER -> region

\* a prompt that names the criteria by its option id
CriteriaLabelRaw(c) == c

\* {"fees": ..., "speed": ..., "trust": ...}.get(c, c)
CriteriaLabel(c) ==
    CASE c = <<"f", "e", "e", "s">> -> <<"l", "o", "w", "e", "s", "t", " ", "f", "e", "e", "s">>
      [] c = <<"s", "p", "e", "e", "d">> -> <<"f", "a", "s", "t", " ", "p", "r", "o", "c", "e", "s", "s">>
      [] c = <<"t", "r", "u", "s", "t">> -> <<"h", "i", "g", "h", " ", "t", "r", "u", "s", "t", "/", "b", "r", "a", "n", "d">>
      [] OTHER -> c

\* {"short": "~150", "medium": "~300", "long": "~600"}.get(l, "~150")
LengthWords(l) ==
    CASE l = <<"s", "h", "o", "r", "t">> -> <<"~", "1", "5", "0">>
      [] l = <<"m", "e", "d", "i", "u", "m">> -> <<"~", "3", "0", "0">>
      [] l = <<"l", "o", "n", "g">> -> <<"~", "6", "0", "0">>
      [] OTHER -> <<"~", "1", "5", "0">>

\* the prompt composed by build_intent for task t
ComposePrompt(t, query, criteria, region, audience, length, language) ==
    CASE t = "summarize" ->
           <<"S", "u", "m", "m", "a", "r", "i", "z", "e", " ", "t", "h", "e", " ", "p", "r", "o", "v", "i", "d", "e", "d", " ", "c", "o", "n", "t", "e", "n", "t", " ", "f", "o", "r", " ", "a", " ">> \o Or(audience, <<"s", "i", "m", "p", "l", "e">>)
           \o <<" ", "a", "u", "d", "i", "e", "n", "c", "e", " ", "i", "n", " ">> \o LengthWords(Or(length, <<"s", "h", "o", "r", "t">>))
           \o <<" ", "w", "o", "r", "d", "s", " ", "w", "i", "t", "h", " ", "c", "i", "t", "a", "t", "i", "o", "n", "s", ".">>
      [] t = "translate" ->
           <<"T", "r", "a", "n", "s", "l", "a", "t", "e", " ", "t", "h", "e", " ", "p", "r", "o", "v", "i", "d", "e", "d", " ", "t", "e", "x", "t", " ", "i", "n", "t", "o", " ">> \o Upper(Or(language, <<"E", "N">>))
           \o <<" ", "w", "i", "t", "h", " ", "n", "a", "t", "u", "r", "a", "l", " ", "t", "o", "n", "e", " ", "a", "n", "d", " ", "p", "r", "e", "s", "e", "r", "v", "e", " ", "f", "o", "r", "m", "a", "t", "t", "i", "n", "g", ".">>
      [] t = "recommend" ->
           <<"R", "e", "c", "o", "m", "m", "e", "n", "d", " ", "s", "u", "i", "t", "a", "b", "l", "e", " ", "o", "p", "t", "i", "o", "n", "s", " ", "i", "n", " ">> \o Or(region, <<"I", "N">>)
           \o <<" ", "o", "p", "t", "i", "m", "i", "s", "e", "d", " ", "f", "o", "r", " ">> \o CriteriaLabel(Or(criteria, <<"f", "e", "e", "s">>))
           \o <<".", " ", "E", "x", "p", "l", "a", "i", "n", " ", "t", "r", "a", "d", "e", "-", "o", "f", "f", "s", " ", "a", "n", "d", " ", "a", "s", "s", "u", "m", "p", "t", "i", "o", "n", "s", ".">>
      [] OTHER -> query

\* a build_intent that rates the risk of the query together with the criteria
build_intentRiskOfCriteria(query, answers, defaults) ==
    LET t == infer_task(query)
        merged == Merge(defaults, answers)
        region0 == Or(Get(merged, "region"), Get(merged, "q2"))
        region == IF Or(region0, None) = None THEN region0
                  ELSE NormaliseRegion(Upper(region0))
        criteria == Or(Get(merged, "criteria"), Get(merged, "q1"))
        audience == Get(merged, "audience")
        length == Get(merged, "length")
        language == Or(Get(merged, "language"), Get(merged, "q3"))
        risk == risk_tier(query \o Or(criteria, <<>>))
    IN [intent |-> [task_type |-> t, criteria |-> criteria, region |-> region,
                    audience |-> audience, length |-> length, language |-> language,
                    risk |-> risk],
        final_prompt |-> ComposePrompt(t, query, criteria, region, audience, length,
                                       language)]

build_intent(query, answers, defaults) ==
    LET t == infer_task(query)
        merged == Merge(defaults, answers)
        region0 == Or(Get(merged, "region"), Get(merged, "q2"))
        \* if region: (None and "" are left as they are)
        region == IF Or(region0, None) = None THEN region0
                  ELSE NormaliseRegion(Upper(region0))
        criteria == Or(Get(merged, "criteria"), Get(merged, "q1"))
        audience == Get(merged, "audience")
        length == Get(merged, "length")
        language == Or(Get(merged, "language"), Get(merged, "q3"))
        risk == risk_tier(query)
    IN [intent |-> [task_type |-> t, criteria |-> criteria, region |-> region,
                    audience |-> audience, length |-> length, language |-> language,
                    risk |-> risk],
        final_prompt |-> ComposePrompt(t, query, criteria, region, audience, length,
                                       language)]

-----------------------------------------------------------------------------
(* utils/storage.py *)

\* SQL NULL in column expires_at, and ttl_ms=None
NULL == -1

\* hashed_id(raw, salt="uire_salt"): sha256(f"{raw}|{salt}").hexdigest()[:16],
\* tabulated for the raw identities of the model
hashed_id(raw) ==
    CASE raw = "testclient" -> "bc001eaf275ae2d7"
      [] raw = "alice" -> "2e61b1264d9a72f6"
      [] raw = "anon" -> "59e5ca772a7adbe8"

\* a table without the rows of keys ks
Without(table, ks) == [x \in DOMAIN table \ ks |-> table[x]]

\* a test that takes a row for expired at the millisecond of its expiry
ExpiredInclusive(row, now) == row.expires_at # NULL /\ row.expires_at <= now

\* the test of get and all_for_user: exp is not None and exp < self._now_ms()
Expired(row, now) == row.expires_at # NULL /\ row.expires_at < now

\* PreferenceStore.set: the table after the upsert
StoreSet(table, user_id, key, value, ttl_ms, now) ==
    (<<user_id, key>> :>
        [value |-> value,
         expires_at |-> IF ttl_ms = NULL THEN NULL ELSE now + ttl_ms])
    @@ table

\* PreferenceStore.get: the value returned
StoreGet(table, user_id, key, now) ==
    IF <<user_id, key>> \notin DOMAIN table THEN None
    ELSE IF Expired(table[<<user_id, key>>], now) THEN None
    ELSE table[<<user_id, key>>].value

\* PreferenceStore.get: the table it leaves (the expired row is deleted)
StoreGetPurge(table, user_id, key, now) ==
    IF <<user_id, key>> \in DOMAIN table /\ Expired(table[<<user_id, key>>], now)
    THEN Without(table, {<<user_id, key>>})
    ELSE table

\* the rows of a user
RowsOf(table, user_id) == {x \in DOMAIN table : x[1] = user_id}

\* PreferenceStore.all_for_user: the dictionary returned
all_for_user(table, user_id, now) ==
    LET live == {x \in RowsOf(table, user_id) : ~Expired(table[x], now)}
    IN [k \in {x[2] : x \in live} |-> table[<<user_id, k>>].value]

\* PreferenceStore.all_for_user: the table it leaves (stale rows are deleted)
AllForUserPurge(table, user_id, now) ==
    Without(table, {x \in RowsOf(table, user_id) : Expired(table[x], now)})

\* a delete without its WHERE clause
ClearEveryUser(table, user_id) == Without(table, DOMAIN table)

\* PreferenceStore.clear_user
clear_user(table, user_id) == Without(table, RowsOf(table, user_id))

\* an insert that leaves an existing row as it is
ConsentSetOnce(table, user_id, accepted, now) ==
    IF user_id \in DOMAIN table THEN table
    ELSE (user_id :> [accepted |-> IF accepted THEN 1 ELSE 0, ts |-> now]) @@ table

\* ConsentStore.set
ConsentSet(table, user_id, accepted, now) ==
    (user_id :> [accepted |-> IF accepted THEN 1 ELSE 0, ts |-> now]) @@ table

\* ConsentStore.get
ConsentGet(table, user_id) ==
    IF user_id \in DOMAIN table THEN table[user_id].accepted # 0 ELSE FALSE

-----------------------------------------------------------------------------
(* utils/telemetry.py *)

\* inc(key)
inc(c, key) == [c EXCEPT ![key] = @ + 1]

\* add_latency(ms)
add_latency(c, ms) == [c EXCEPT !["latency_ms_sum"] = @ + ms]

-----------------------------------------------------------------------------
(* api/main.py *)

\* RATE_LIMIT = float(os.environ.get("UIRE_RATE_LIMIT", "10"))
DEFAULT_RATE_LIMIT == 10

\* the resolution of the model's monotonic clock, in ticks per second
TicksPerSecond == 2

\* a token, in the unit in which the model counts tokens: 1/TicksPerSecond token
OneToken == TicksPerSecond

\* client_id: hdr_user_id or request.client.host, hashed
client_id(host, hdr_user_id) ==
    hashed_id(IF hdr_user_id # "" THEN hdr_user_id ELSE IF host # "" THEN host ELSE "anon")

\* check_rate: _buckets.get(client, (RATE_LIMIT, now))
BucketOf(client) ==
    IF client \in DOMAIN buckets THEN buckets[client]
    ELSE [tokens |-> RATE_LIMIT * OneToken, last |-> mono]

\* check_rate: min(RATE_LIMIT, tokens + elapsed * RATE_LIMIT)
RefilledTokens(client) ==
    LET b == BucketOf(client)
        elapsed == Max(0, mono - b.last)
    IN Min(RATE_LIMIT * OneToken, b.tokens + elapsed * RATE_LIMIT)

\* a limiter that refuses nobody
RateAdmitsAlways(client) == TRUE

\* a limiter that refuses a bucket of exactly one token
RateAdmitsStrict(client) == RefilledTokens(client) > OneToken

\* check_rate: the request is not refused (tokens < 1.0 raises 429)
RateAdmits(client) == RefilledTokens(client) >= OneToken

\* a limiter that admits without writing the bucket back
BucketsAfterNoStore(client) == buckets

\* a limiter that writes the refilled bucket back before it refuses
BucketsAfterRefill(client) ==
    (client :> [tokens |-> RefilledTokens(client)
                           - (IF RefilledTokens(client) >= OneToken THEN OneToken ELSE 0),
                last |-> mono])
    @@ buckets

\* check_rate: _buckets after the call
BucketsAfter(client) ==
    IF RateAdmits(client)
    THEN (client :> [tokens |-> RefilledTokens(client) - OneToken, last |-> mono])
         @@ buckets
    ELSE buckets

Response(status, body) == [status |-> status, body |-> body]
RateLimited == Response(429, [detail |-> "rate limit exceeded"])
Unprocessable == Response(422, [detail |-> "validation error"])
\* the response to a handler that raised another exception (sqlite3.Error)
ServerError == Response(500, [detail |-> "Internal Server Error"])

\* no request is being served
Idle == [op |-> "idle", client |-> "", args |-> <<>>]
NoResponse == [status |-> 0, body |-> <<>>]

-----------------------------------------------------------------------------
(* The requests of the model *)

\* X-User-Id headers: absent (the host identifies the client), or a user
Headers == {"", "alice"}

Q_empty == <<>>
Q_blank == <<" ", "\t">>
\* tests/test_api.py: the query of test_detect_clarify_resolve_answer_flow
Q_bank == <<"F", "i", "n", "d", " ", "m", "e", " ", "t", "h", "e", " ", "b", "e", "s", "t", " ", "b", "a", "n", "k", " ", "a", "c", "c", "o", "u", "n", "t">>
Queries == {Q_empty, Q_blank, Q_bank}

EmptyMap == <<>>
\* tests/test_api.py: answers[f"q{i}"] = qd.get("default")
DefaultAnswers == ("q1" :> <<"f", "e", "e", "s">>) @@ ("q2" :> <<"I", "N">>)
AnswerMaps == {EmptyMap, DefaultAnswers, [region |-> <<"U", "S">>], [region |-> <<>>]}

\* the dictionaries all_for_user can return in the model
PrefKeys == {"region", "criteria"}
PrefValues == {<<"I", "N">>, <<"U", "S">>, <<"s", "p", "e", "e", "d">>}
PrefMaps == UNION {[ks -> PrefValues] : ks \in SUBSET PrefKeys}

\* the pure stages on the requests of the model, each evaluated once
DetectTable == {<<q, detect(q)>> : q \in Queries}
BuildIntentTable ==
    {<<x, build_intent(x[1], x[2], x[3])>> : x \in Queries \X AnswerMaps \X PrefMaps}
Lookup(table, x) == (CHOOSE y \in table : y[1] = x)[2]

-----------------------------------------------------------------------------
(* api/main.py: the handlers *)

\* request.client.host of the test client
Host == "testclient"

\* API_KEY is unset, as it is by default: check_api_key lets every request pass

Request(op, client, args) == [op |-> op, client |-> client, args |-> args]

\* a handler that raised before its body ran: the response, and nothing else
Refused(r) ==
    /\ resp' = r
    /\ UNCHANGED <<counters, log_lines, preferences, consent>>

\* time.monotonic() advances
TickMono ==
    /\ mono < MaxMono
    /\ mono' = mono + 1
    /\ req' = Idle
    /\ resp' = NoResponse
    /\ UNCHANGED <<RATE_LIMIT, tasks, db_fault, wall, buckets, burst, counters, log_lines, preferences, consent>>

\* the database becomes unusable (the file is locked, unreadable or corrupt)
DbFails ==
    /\ ~db_fault
    /\ db_fault' = TRUE
    /\ req' = Idle
    /\ resp' = NoResponse
    /\ UNCHANGED <<RATE_LIMIT, tasks, mono, wall, buckets, burst, counters, log_lines,
                   preferences, consent>>

\* the database is usable again
DbRecovers ==
    /\ db_fault
    /\ db_fault' = FALSE
    /\ req' = Idle
    /\ resp' = NoResponse
    /\ UNCHANGED <<RATE_LIMIT, tasks, mono, wall, buckets, burst, counters, log_lines,
                   preferences, consent>>

\* time.time() advances
TickWall ==
    /\ wall < MaxWall
    /\ wall' = wall + 1
    /\ req' = Idle
    /\ resp' = NoResponse
    /\ UNCHANGED <<RATE_LIMIT, tasks, db_fault, mono, buckets, burst, counters, log_lines, preferences, consent>>

\* POST /v1/detect; dt is the latency measured around the detector
Detect(hdr, query, dt) ==
    LET client == client_id(Host, hdr)
        res == Lookup(DetectTable, query)
    IN /\ req' = Request("detect", client, [query |-> query])
       /\ IF ~DetectRequestValid(query)
          THEN Refused(Unprocessable) /\ UNCHANGED buckets
          ELSE IF ~RateAdmits(client)
          THEN Refused(RateLimited) /\ buckets' = BucketsAfter(client)
          ELSE /\ log_lines < MaxEvents
               /\ buckets' = BucketsAfter(client)
               /\ counters' =
                    add_latency(
                        IF res.ambiguous
                        THEN inc(inc(counters, "requests_total"), "ambiguous_total")
                        ELSE inc(counters, "requests_total"),
                        dt)
               /\ log_lines' = log_lines + 1
               /\ resp' = Response(200, res)
               /\ UNCHANGED <<preferences, consent>>
       /\ UNCHANGED <<RATE_LIMIT, tasks, db_fault, mono, wall, burst>>

\* POST /v1/clarify
Clarify(hdr, query, factors, ids) ==
    LET client == client_id(Host, hdr)
        qs == generate(query, factors, ids)
    IN /\ req' = Request("clarify", client, [query |-> query, factors |-> factors])
       /\ IF ~RateAdmits(client)
          THEN Refused(RateLimited) /\ buckets' = BucketsAfter(client)
          ELSE /\ log_lines < MaxEvents
               /\ buckets' = BucketsAfter(client)
               /\ counters' = IF qs # <<>> THEN inc(counters, "clarifications_total")
                              ELSE counters
               /\ log_lines' = log_lines + 1
               /\ resp' = Response(200, [questions |-> qs, max_questions |-> 2])
               /\ UNCHANGED <<preferences, consent>>
       /\ UNCHANGED <<RATE_LIMIT, tasks, db_fault, mono, wall, burst>>

\* a resolve and answer that take a failed lookup for no stored preferences
ResolveWithoutPrefs(op, counter, hdr, query, answers) ==
    LET client == client_id(Host, hdr)
        prefs == IF db_fault THEN EmptyMap ELSE all_for_user(preferences, client, wall)
        out == Lookup(BuildIntentTable, <<query, answers, prefs>>)
    IN /\ req' = Request(op, client, [query |-> query, answers |-> answers])
       /\ IF ~RateAdmits(client)
          THEN Refused(RateLimited) /\ buckets' = BucketsAfter(client)
          ELSE /\ log_lines < MaxEvents
               /\ buckets' = BucketsAfter(client)
               /\ preferences' = IF db_fault THEN preferences
                                 ELSE AllForUserPurge(preferences, client, wall)
               /\ counters' = inc(counters, counter)
               /\ log_lines' = log_lines + 1
               /\ resp' = Response(200, out)
               /\ UNCHANGED consent
       /\ UNCHANGED <<RATE_LIMIT, tasks, db_fault, mono, wall, burst>>

\* the body shared by resolve and answer, which differ in the counter;
\* _store.all_for_user raises when the database is unusable
ResolveWith(op, counter, hdr, query, answers) ==
    LET client == client_id(Host, hdr)
        prefs == all_for_user(preferences, client, wall)
        out == Lookup(BuildIntentTable, <<query, answers, prefs>>)
    IN /\ req' = Request(op, client, [query |-> query, answers |-> answers])
       /\ IF ~RateAdmits(client)
          THEN Refused(RateLimited) /\ buckets' = BucketsAfter(client)
          ELSE IF db_fault
          THEN Refused(ServerError) /\ buckets' = BucketsAfter(client)
          ELSE /\ log_lines < MaxEvents
               /\ buckets' = BucketsAfter(client)
               /\ preferences' = AllForUserPurge(preferences, client, wall)
               /\ counters' = inc(counters, counter)
               /\ log_lines' = log_lines + 1
               /\ resp' = Response(200, out)
               /\ UNCHANGED consent
       /\ UNCHANGED <<RATE_LIMIT, tasks, db_fault, mono, wall, burst>>

\* POST /v1/resolve
Resolve(hdr, query, answers) ==
    ResolveWith("resolve", "resolved_total", hdr, query, answers)

\* POST /v1/answer
Answer(hdr, query, answers) ==
    ResolveWith("answer", "answer_total", hdr, query, answers)

\* GET /v1/memory
GetMemory(hdr) ==
    LET client == client_id(Host, hdr)
    IN /\ req' = Request("get_memory", client, <<>>)
       /\ IF db_fault
          THEN Refused(ServerError)
          ELSE /\ preferences' = AllForUserPurge(preferences, client, wall)
               /\ resp' = Response(200, [prefs |-> all_for_user(preferences, client, wall)])
               /\ UNCHANGED <<counters, log_lines, consent>>
       /\ UNCHANGED <<RATE_LIMIT, tasks, db_fault, mono, wall, buckets, burst>>

\* for k, v in prefs.items(): _store.set(client, k, v)
RECURSIVE SetEach(_, _, _, _, _)
SetEach(table, user_id, prefs, keys, now) ==
    IF keys = {} THEN table
    ELSE LET k == CHOOSE k \in keys : TRUE
         IN SetEach(StoreSet(table, user_id, k, prefs[k], NULL, now), user_id, prefs,
                    keys \ {k}, now)

\* POST /v1/memory
SetMemory(hdr, prefs) ==
    LET client == client_id(Host, hdr)
        stored == SetEach(preferences, client, prefs, DOMAIN prefs, wall)
    IN /\ req' = Request("set_memory", client, [prefs |-> prefs])
       /\ IF db_fault
          THEN Refused(ServerError)
          ELSE /\ preferences' = AllForUserPurge(stored, client, wall)
               /\ resp' = Response(200, [prefs |-> all_for_user(stored, client, wall)])
               /\ UNCHANGED <<counters, log_lines, consent>>
       /\ UNCHANGED <<RATE_LIMIT, tasks, db_fault, mono, wall, buckets, burst>>

\* DELETE /v1/memory
ClearMemory(hdr) ==
    LET client == client_id(Host, hdr)
    IN /\ req' = Request("clear_memory", client, <<>>)
       /\ IF db_fault
          THEN Refused(ServerError)
          ELSE /\ preferences' = clear_user(preferences, client)
               /\ resp' = Response(200, [status |-> "cleared"])
               /\ UNCHANGED <<counters, log_lines, consent>>
       /\ UNCHANGED <<RATE_LIMIT, tasks, db_fault, mono, wall, buckets, burst>>

\* GET /v1/consent
GetConsent(hdr) ==
    LET client == client_id(Host, hdr)
    IN /\ req' = Request("get_consent", client, <<>>)
       /\ IF db_fault
          THEN Refused(ServerError)
          ELSE /\ resp' = Response(200, [accepted |-> ConsentGet(consent, client)])
               /\ UNCHANGED <<counters, log_lines, preferences, consent>>
       /\ UNCHANGED <<RATE_LIMIT, tasks, db_fault, mono, wall, buckets, burst>>

\* POST /v1/consent
SetConsent(hdr, accepted) ==
    LET client == client_id(Host, hdr)
        stored == ConsentSet(consent, client, accepted, wall)
    IN /\ req' = Request("set_consent", client, [accepted |-> accepted])
       /\ IF db_fault
          THEN Refused(ServerError)
          ELSE /\ consent' = stored
               /\ resp' = Response(200, [accepted |-> ConsentGet(stored, client)])
               /\ UNCHANGED <<counters, log_lines, preferences>>
       /\ UNCHANGED <<RATE_LIMIT, tasks, db_fault, mono, wall, buckets, burst>>

-----------------------------------------------------------------------------
(* Calls made on the components themselves, as their unit tests make them *)

Returned(result) == Response(200, [result |-> result])

\* check_rate(client), called on its own
CheckRate(client) ==
    LET admitted == RateAdmits(client)
        seen == IF client \in DOMAIN burst THEN burst[client]
                ELSE [at |-> mono, calls |-> 0, admitted |-> 0]
    IN /\ req' = Request("check_rate", client, <<>>)
       /\ resp' = IF admitted THEN Returned(None) ELSE RateLimited
       /\ buckets' = BucketsAfter(client)
       \* the observer: the calls at the instant of the client's first call
       /\ burst' = IF seen.at = mono /\ seen.calls <= RATE_LIMIT + 1
                   THEN (client :> [at |-> seen.at, calls |-> seen.calls + 1,
                                    admitted |-> seen.admitted + IF admitted THEN 1 ELSE 0])
                        @@ burst
                   ELSE burst
       /\ UNCHANGED <<RATE_LIMIT, tasks, db_fault, mono, wall, counters, log_lines, preferences, consent>>

\* PreferenceStore.set(user_id, key, value, ttl_ms)
StoreSetCall(user_id, key, value, ttl_ms) ==
    /\ req' = Request("store.set", user_id, [key |-> key, value |-> value, ttl_ms |-> ttl_ms])
    /\ resp' = Returned(None)
    /\ preferences' = StoreSet(preferences, user_id, key, value, ttl_ms, wall)
    /\ UNCHANGED <<RATE_LIMIT, tasks, db_fault, mono, wall, buckets, burst, counters, log_lines, consent>>

\* PreferenceStore.get(user_id, key)
StoreGetCall(user_id, key) ==
    /\ req' = Request("store.get", user_id, [key |-> key])
    /\ resp' = Returned(StoreGet(preferences, user_id, key, wall))
    /\ preferences' = StoreGetPurge(preferences, user_id, key, wall)
    /\ UNCHANGED <<RATE_LIMIT, tasks, db_fault, mono, wall, buckets, burst, counters, log_lines, consent>>

\* PreferenceStore.all_for_user(user_id)
AllForUserCall(user_id) ==
    /\ req' = Request("store.all_for_user", user_id, <<>>)
    /\ resp' = Returned(all_for_user(preferences, user_id, wall))
    /\ preferences' = AllForUserPurge(preferences, user_id, wall)
    /\ UNCHANGED <<RATE_LIMIT, tasks, db_fault, mono, wall, buckets, burst, counters, log_lines, consent>>

\* PreferenceStore.clear_user(user_id)
ClearUserCall(user_id) ==
    /\ req' = Request("store.clear_user", user_id, <<>>)
    /\ resp' = Returned(None)
    /\ preferences' = clear_user(preferences, user_id)
    /\ UNCHANGED <<RATE_LIMIT, tasks, db_fault, mono, wall, buckets, burst, counters, log_lines, consent>>

\* a sequence without its element t
Remove(seq, t) == SubSeq(seq, 1, t - 1) \o SubSeq(seq, t + 1, Len(seq))

\* PreferenceStore.get(user_id, key) of one caller among others, up to its
\* SELECT: a live or absent row is answered at once; an expired row is kept in
\* the caller's locals, to be deleted by a later statement
GetSelect(user_id, key) ==
    LET x == <<user_id, key>>
        stale == x \in DOMAIN preferences /\ Expired(preferences[x], wall)
    IN /\ IF stale
          THEN /\ Len(tasks) < MaxTasks
               /\ tasks' = Append(tasks, [op |-> "store.get", user_id |-> user_id,
                                          args |-> [key |-> key], stale |-> {x},
                                          result |-> None])
               /\ UNCHANGED <<req, resp, preferences>>
          ELSE /\ req' = Request("store.get", user_id, [key |-> key])
               /\ resp' = Returned(StoreGet(preferences, user_id, key, wall))
               /\ UNCHANGED <<tasks, preferences>>
       /\ UNCHANGED <<RATE_LIMIT, db_fault, mono, wall, buckets, burst, counters,
                      log_lines, consent>>

\* PreferenceStore.all_for_user(user_id) of one caller among others, up to its
\* SELECT: the result is built and the keys of the expired rows are collected
AllSelect(user_id) ==
    LET stale == {x \in RowsOf(preferences, user_id) : Expired(preferences[x], wall)}
    IN /\ IF stale # {}
          THEN /\ Len(tasks) < MaxTasks
               /\ tasks' = Append(tasks, [op |-> "store.all_for_user", user_id |-> user_id,
                                          args |-> <<>>, stale |-> stale,
                                          result |-> all_for_user(preferences, user_id, wall)])
               /\ UNCHANGED <<req, resp, preferences>>
          ELSE /\ req' = Request("store.all_for_user", user_id, <<>>)
               /\ resp' = Returned(all_for_user(preferences, user_id, wall))
               /\ UNCHANGED <<tasks, preferences>>
       /\ UNCHANGED <<RATE_LIMIT, db_fault, mono, wall, buckets, burst, counters,
                      log_lines, consent>>

\* get and all_for_user of caller t, from the DELETE to the return: the rows at
\* the collected keys are deleted, whatever they hold now, and committed
PurgeCommit(t) ==
    /\ t \in DOMAIN tasks
    /\ preferences' = Without(preferences, tasks[t].stale)
    /\ req' = Request(tasks[t].op, tasks[t].user_id, tasks[t].args)
    /\ resp' = Returned(tasks[t].result)
    /\ tasks' = Remove(tasks, t)
    /\ UNCHANGED <<RATE_LIMIT, db_fault, mono, wall, buckets, burst, counters,
                   log_lines, consent>>

\* Clarifier().generate(query, factors), the request having been received
GenerateCall ==
    /\ req.op = "generate"
    /\ resp = NoResponse
    /\ resp' = Returned(generate(req.args.query, req.args.factors, req.args.ids))
    /\ UNCHANGED <<RATE_LIMIT, tasks, db_fault, mono, wall, buckets, burst, counters, log_lines, preferences,
                   consent, req>>

\* a request of client is accepted: its handler is a task of the event loop
Accept(client) ==
    /\ Len(tasks) < MaxTasks
    /\ tasks' = Append(tasks, [client |-> client, pc |-> "start", tokens |-> 0,
                               now |-> 0, status |-> 0])
    /\ UNCHANGED <<RATE_LIMIT, db_fault, mono, wall, buckets, burst, counters,
                   log_lines, preferences, consent, req, resp>>

\* a scheduler that switches tasks anywhere, as threads are switched
ThreadRuns(t) == TRUE

\* the handlers are coroutines that never await: the event loop runs task t
\* only when no other task is inside its handler
LoopRuns(t) == \A u \in DOMAIN tasks \ {t} : tasks[u].pc # "read"

\* check_rate of task t: the clock and the bucket are read and the bucket is
\* refilled, in the locals now and tokens
RateRead(t) ==
    /\ t \in DOMAIN tasks
    /\ tasks[t].pc = "start"
    /\ LoopRuns(t)
    /\ tasks' = [tasks EXCEPT ![t] = [@ EXCEPT !.pc = "read",
                                               !.tokens = RefilledTokens(tasks[t].client),
                                               !.now = mono]]
    /\ UNCHANGED <<RATE_LIMIT, db_fault, mono, wall, buckets, burst, counters,
                   log_lines, preferences, consent, req, resp>>

\* check_rate of task t: the request is refused, or a token is taken and the
\* bucket is written from the locals
RateWrite(t) ==
    /\ t \in DOMAIN tasks
    /\ tasks[t].pc = "read"
    /\ LoopRuns(t)
    /\ IF tasks[t].tokens < OneToken
       THEN /\ tasks' = [tasks EXCEPT ![t] = [@ EXCEPT !.pc = "done", !.status = 429]]
            /\ buckets' = buckets
       ELSE /\ tasks' = [tasks EXCEPT ![t] = [@ EXCEPT !.pc = "done", !.status = 200]]
            /\ buckets' = (tasks[t].client :> [tokens |-> tasks[t].tokens - OneToken,
                                               last |-> tasks[t].now])
                          @@ buckets
    /\ UNCHANGED <<RATE_LIMIT, db_fault, mono, wall, burst, counters,
                   log_lines, preferences, consent, req, resp>>

\* AmbiguityDetector().detect(query), the call having been received
DetectCall ==
    /\ req.op = "detect"
    /\ resp = NoResponse
    /\ resp' = Returned(detect(req.args.query))
    /\ UNCHANGED <<RATE_LIMIT, tasks, db_fault, mono, wall, buckets, burst, counters,
                   log_lines, preferences, consent, req>>

\* test_api.py: the caller passes the factors of the detection to generate,
\* which names its questions ids
PassFactors(ids) ==
    /\ req.op = "detect"
    /\ resp.status = 200
    /\ req' = Request("generate", "",
                      [query |-> req.args.query, factors |-> resp.body.result.factors,
                       ids |-> ids])
    /\ resp' = NoResponse
    /\ UNCHANGED <<RATE_LIMIT, tasks, db_fault, mono, wall, buckets, burst, counters,
                   log_lines, preferences, consent>>

\* test_api.py: answers[f"q{i}"] for the i-th question
AnswerKey(i) == CASE i = 1 -> "q1" [] i = 2 -> "q2" [] i = 3 -> "q3"

\* the answer maps a caller can build from questions qs: an option of each
\* question, keyed by the position of the question
AnswersTo(qs) ==
    LET keys == {AnswerKey(i) : i \in 1..Len(qs)}
        ids == UNION {{qs[i].options[o].id : o \in 1..Len(qs[i].options)} : i \in 1..Len(qs)}
    IN {a \in [keys -> ids] :
          \A i \in 1..Len(qs) :
             \E o \in 1..Len(qs[i].options) : a[AnswerKey(i)] = qs[i].options[o].id}

\* test_api.py: the caller answers the questions and resolves, having no stored
\* preferences; questions is the caller's record of what was asked
PassAnswers ==
    /\ req.op = "generate"
    /\ resp.status = 200
    /\ \E answers \in AnswersTo(resp.body.result) :
          req' = Request("build_intent", "",
                         [query |-> req.args.query, answers |-> answers,
                          defaults |-> EmptyMap, questions |-> resp.body.result])
    /\ resp' = NoResponse
    /\ UNCHANGED <<RATE_LIMIT, tasks, db_fault, mono, wall, buckets, burst, counters,
                   log_lines, preferences, consent>>

\* build_intent(query, answers, defaults), the call having been received
BuildIntentCall ==
    /\ req.op = "build_intent"
    /\ resp = NoResponse
    /\ resp' = Returned(build_intent(req.args.query, req.args.answers, req.args.defaults))
    /\ UNCHANGED <<RATE_LIMIT, tasks, db_fault, mono, wall, buckets, burst, counters, log_lines, preferences,
                   consent, req>>

-----------------------------------------------------------------------------
(* The specifications *)

Clients == {client_id(Host, h) : h \in Headers}

ZeroCounters ==
    [requests_total |-> 0, ambiguous_total |-> 0, clarifications_total |-> 0,
     resolved_total |-> 0, answer_total |-> 0, errors_total |-> 0,
     latency_ms_sum |-> 0]

\* the process after import, on a database file that holds the given tables
Started(rate_limit, preference_rows, consent_rows) ==
    /\ RATE_LIMIT = rate_limit
    /\ mono = 0
    /\ wall = 0
    /\ buckets = <<>>
    /\ burst = <<>>
    /\ counters = ZeroCounters
    /\ log_lines = 0
    /\ preferences = preference_rows
    /\ consent = consent_rows
    /\ tasks = <<>>
    /\ db_fault = FALSE
    /\ req = Idle
    /\ resp = NoResponse

\* UIRE_RATE_LIMIT is set to an integer of 1..MaxRateLimit; the database is new
Init == \E rate_limit \in 1..MaxRateLimit : Started(rate_limit, <<>>, <<>>)

\* UIRE_RATE_LIMIT is not set: RATE_LIMIT = float("10"); the database is new
InitDefault == Started(DEFAULT_RATE_LIMIT, <<>>, <<>>)

\* a database file written by an earlier process: a preference of the host's
\* client that expires at millisecond 0, a permanent one and a consent of alice
SeededPreferences ==
    (<<hashed_id(Host), "region">> :> [value |-> <<"I", "N">>, expires_at |-> 0])
    @@ (<<hashed_id("alice"), "region">> :> [value |-> <<"U", "S">>, expires_at |-> NULL])
SeededConsent == (hashed_id("alice") :> [accepted |-> 1, ts |-> 0])

InitSeeded ==
    \E rate_limit \in 1..MaxRateLimit :
        Started(rate_limit, SeededPreferences, SeededConsent)

QuestionIds == <<"q0f3a9c1e", "q5b7d2a40">>

\* The service: the rate-limited handlers on the requests of two clients, the
\* memory and consent handlers on those of one
Next ==
    \/ TickMono
    \/ \E h \in Headers, q \in {Q_empty, Q_bank} : Detect(h, q, 0)
    \/ \E h \in Headers : Clarify(h, Q_bank, Lookup(DetectTable, Q_bank).factors, QuestionIds)
    \/ \E h \in Headers : Resolve(h, Q_bank, DefaultAnswers)
    \/ \E h \in Headers : Answer(h, Q_bank, DefaultAnswers)
    \/ GetMemory("alice")
    \/ SetMemory("alice", [region |-> <<"U", "S">>])
    \/ ClearMemory("alice")
    \/ GetConsent("alice")
    \/ SetConsent("alice", TRUE)

Spec == Init /\ [][Next]_vars

\* The rate limiter on its own
NextRate ==
    \/ TickMono
    \/ \E c \in Clients : CheckRate(c)

SpecRate == Init /\ [][NextRate]_vars

\* The rate-limited handlers on a database that holds an expiring preference
NextReject ==
    \/ TickMono
    \/ TickWall
    \/ \E h \in Headers, dt \in 0..MaxLatency : Detect(h, Q_bank, dt)
    \/ \E h \in Headers : Clarify(h, Q_bank, Lookup(DetectTable, Q_bank).factors, QuestionIds)
    \/ \E h \in Headers : Resolve(h, Q_bank, DefaultAnswers)
    \/ \E h \in Headers : Answer(h, Q_bank, DefaultAnswers)

SpecReject == InitSeeded /\ [][NextReject]_vars

\* The preference store on its own
StoreTtls == {NULL} \cup 1..MaxTtl

NextStore ==
    \/ TickWall
    \/ \E u \in Clients, k \in PrefKeys, ttl \in StoreTtls : StoreSetCall(u, k, <<"I", "N">>, ttl)
    \/ \E u \in Clients, k \in PrefKeys : StoreGetCall(u, k)
    \/ \E u \in Clients : AllForUserCall(u)
    \/ \E u \in Clients : ClearUserCall(u)

SpecStore == InitDefault /\ [][NextStore]_vars

\* The pipeline of one caller and the memory it reads
NextPipeline ==
    \/ \E h \in Headers, q \in Queries : Detect(h, q, 0)
    \/ \E h \in Headers, fs \in {Lookup(DetectTable, q).factors : q \in Queries} :
          Clarify(h, Q_bank, fs, QuestionIds)
    \/ \E h \in Headers, ans \in AnswerMaps : Resolve(h, Q_bank, ans)
    \/ \E h \in Headers, ans \in AnswerMaps : Answer(h, Q_bank, ans)
    \/ \E h \in Headers, p \in {[region |-> <<"I", "N">>], [region |-> <<"U", "S">>]} : SetMemory(h, p)
    \/ \E h \in Headers : ClearMemory(h)

SpecPipeline == InitDefault /\ [][NextPipeline]_vars

\* The memory handlers, with a handler that reads the memory
MemoryPrefs == {[region |-> <<"I", "N">>], [region |-> <<"U", "S">>], [criteria |-> <<"s", "p", "e", "e", "d">>]}

NextMemory ==
    \/ TickWall
    \/ \E h \in Headers : GetMemory(h)
    \/ \E h \in Headers, p \in MemoryPrefs : SetMemory(h, p)
    \/ \E h \in Headers : ClearMemory(h)
    \/ \E h \in Headers : Resolve(h, Q_bank, DefaultAnswers)

SpecMemory == InitDefault /\ [][NextMemory]_vars

\* The consent handlers, with the handlers of the other table
NextConsent ==
    \/ TickWall
    \/ \E h \in Headers : GetConsent(h)
    \/ \E h \in Headers, accepted \in BOOLEAN : SetConsent(h, accepted)
    \/ \E h \in Headers : SetMemory(h, [region |-> <<"U", "S">>])
    \/ \E h \in Headers : ClearMemory(h)
    \/ \E h \in Headers : Resolve(h, Q_bank, DefaultAnswers)

SpecConsent == InitDefault /\ [][NextConsent]_vars

\* The clarifier on every factor list of at most MaxFactors tags
FactorTags ==
    {"empty_query", "criteria_missing", "referent_missing", "audience_missing",
     "length_missing", "language_missing", "region_missing", "unknown_tag"}
FactorLists == UNION {[1..n -> FactorTags] : n \in 0..MaxFactors}

InitPure ==
    /\ RATE_LIMIT = DEFAULT_RATE_LIMIT
    /\ mono = 0
    /\ wall = 0
    /\ buckets = <<>>
    /\ burst = <<>>
    /\ counters = ZeroCounters
    /\ log_lines = 0
    /\ preferences = <<>>
    /\ consent = <<>>
    /\ tasks = <<>>
    /\ db_fault = FALSE
    /\ \E fs \in FactorLists :
          req = Request("generate", "", [query |-> Q_bank, factors |-> fs, ids |-> QuestionIds])
    /\ resp = NoResponse

NextPure == GenerateCall

SpecPure == InitPure /\ [][NextPure]_vars

\* build_intent on queries of each task and risk, with answers and stored
\* preferences that name tasks and risk keywords
IntentQueries ==
    {Q_bank, <<"T", "r", "a", "n", "s", "l", "a", "t", "e", " ", "t", "h", "i", "s", " ", "t", "o", " ", "H", "i", "n", "d", "i">>, <<"s", "u", "m", "m", "a", "r", "i", "z", "e", " ", "t", "h", "e", " ", "l", "e", "g", "a", "l", " ", "p", "a", "p", "e", "r">>, <<"h", "e", "l", "l", "o", " ", "t", "h", "e", "r", "e">>,
     <<"S", "u", "g", "g", "e", "s", "t", " ", "a", " ", "m", "e", "d", "i", "c", "a", "l", " ", "p", "l", "a", "n">>}
IntentAnswers ==
    {EmptyMap, DefaultAnswers, [task_type |-> <<"t", "r", "a", "n", "s", "l", "a", "t", "e">>], [risk |-> <<"h", "i", "g", "h">>],
     [criteria |-> <<"m", "e", "d", "i", "c", "a", "l">>], [q3 |-> <<"t", "r", "a", "n", "s", "l", "a", "t", "e">>]}
IntentPrefs ==
    {EmptyMap, [region |-> <<"U", "S">>], [criteria |-> <<"l", "e", "g", "a", "l">>], [task_type |-> <<"s", "u", "m", "m", "a", "r", "i", "z", "e">>]}

\* a process in which no handler ran, with the call r received
Received(r) ==
    /\ RATE_LIMIT = DEFAULT_RATE_LIMIT
    /\ mono = 0
    /\ wall = 0
    /\ buckets = <<>>
    /\ burst = <<>>
    /\ counters = ZeroCounters
    /\ log_lines = 0
    /\ preferences = <<>>
    /\ consent = <<>>
    /\ tasks = <<>>
    /\ db_fault = FALSE
    /\ req = r
    /\ resp = NoResponse

InitIntent ==
    \E q \in IntentQueries, a \in IntentAnswers, p \in IntentPrefs :
        Received(Request("build_intent", "", [query |-> q, answers |-> a, defaults |-> p]))

NextIntent == BuildIntentCall

SpecIntent == InitIntent /\ [][NextIntent]_vars

\* The handlers that read the stores, on a database that fails and recovers
NextFailure ==
    \/ DbFails
    \/ DbRecovers
    \/ \E h \in Headers : Resolve(h, Q_bank, DefaultAnswers)
    \/ \E h \in Headers : Answer(h, Q_bank, DefaultAnswers)
    \/ \E h \in Headers : GetMemory(h)
    \/ \E h \in Headers : SetMemory(h, [region |-> <<"U", "S">>])
    \/ \E h \in Headers : GetConsent(h)
    \/ \E h \in Headers : SetConsent(h, TRUE)

SpecFailure == Init /\ [][NextFailure]_vars

\* Detection, clarification and resolution in sequence, as the test calls
\* them, on queries of which the detector finds different factors
FlowQueries ==
    {Q_bank, <<"r", "e", "c", "o", "m", "m", "e", "n", "d", " ", "a", " ", "b", "a", "n", "k">>, <<"s", "u", "m", "m", "a", "r", "i", "z", "e", " ", "t", "h", "e", " ", "p", "a", "p", "e", "r">>, <<"t", "r", "a", "n", "s", "l", "a", "t", "e", " ", "h", "e", "l", "l", "o">>,
     <<"t", "h", "e", " ", "b", "e", "s", "t", " ", "p", "h", "o", "n", "e", " ", "i", "n", " ", "i", "n", "d", "i", "a">>, <<"t", "r", "a", "n", "s", "l", "a", "t", "e", " ", "t", "h", "e", " ", "b", "e", "s", "t">>, <<"h", "e", "l", "l", "o">>, <<"s", "u", "m", "m", "a", "r", "i", "z", "e", " ", "i", "t">>}

InitFlow == \E q \in FlowQueries : Received(Request("detect", "", [query |-> q]))

NextFlow ==
    \/ DetectCall
    \/ PassFactors(QuestionIds)
    \/ GenerateCall
    \/ PassAnswers
    \/ BuildIntentCall

SpecFlow == InitFlow /\ [][NextFlow]_vars

\* Concurrent requests to the rate limiter at one instant of the clock
NextLoop ==
    \/ \E c \in Clients : Accept(c)
    \/ \E t \in 1..MaxTasks : RateRead(t)
    \/ \E t \in 1..MaxTasks : RateWrite(t)

SpecLoop == Init /\ [][NextLoop]_vars

\* The preference store of one user under concurrent callers, each on a
\* connection of its own: a statement is a step, between two statements of one
\* caller the others run
RaceUser == client_id(Host, "alice")

NextStoreRace ==
    \/ TickWall
    \/ \E k \in PrefKeys, ttl \in StoreTtls : StoreSetCall(RaceUser, k, <<"I", "N">>, ttl)
    \/ \E k \in PrefKeys : GetSelect(RaceUser, k)
    \/ AllSelect(RaceUser)
    \/ \E t \in 1..MaxTasks : PurgeCommit(t)
    \/ ClearUserCall(RaceUser)

SpecStoreRace == InitDefault /\ [][NextStoreRace]_vars

-----------------------------------------------------------------------------
(* The claims *)

\* C1 (SpecRate): in a burst on a fresh bucket with no elapsed time, a call is
\* admitted exactly while fewer than RATE_LIMIT calls were admitted before it, so
\* of RATE_LIMIT + 1 calls the first RATE_LIMIT are admitted and the last is
\* refused; and a call made when at least 1/RATE_LIMIT second has elapsed since
\* the client's last admitted call is admitted, whatever was refused in between.
C1_BurstThenRefill ==
    /\ [](\A c \in DOMAIN burst : burst[c].admitted = Min(burst[c].calls, RATE_LIMIT))
    /\ [][(/\ req'.op = "check_rate"
           /\ req'.client \in DOMAIN buckets
           /\ (mono - buckets[req'.client].last) * RATE_LIMIT >= TicksPerSecond)
          => resp'.status = 200]_vars

\* a client made RATE_LIMIT + 1 calls at one instant, the last refused, and is
\* admitted again after the clock advanced
C1_Witness ==
    \E c \in DOMAIN burst :
        /\ burst[c].calls = RATE_LIMIT + 1
        /\ burst[c].admitted = RATE_LIMIT
        /\ req = Request("check_rate", c, <<>>)
        /\ resp.status = 200
        /\ buckets[c].last > burst[c].at

\* the operations that call check_rate, and those that do not
PipelineOps == {"detect", "clarify", "resolve", "answer"}
MemoryOps == {"get_memory", "set_memory", "clear_memory", "get_consent", "set_consent"}

\* a step of one of the operations ops is gated by the caller's bucket: with
\* fewer than one token after the refill the request is refused and nothing
\* changes; a request that is executed has taken one token from the caller's
\* bucket, refilled to the time of the request
GateStep(ops) ==
    req'.op \in ops =>
        LET c == req'.client
            tokens == RefilledTokens(c)
        IN /\ tokens < OneToken =>
                /\ resp'.status \in {422, 429}
                /\ UNCHANGED <<buckets, counters, log_lines, preferences, consent>>
           /\ resp'.status = 200 =>
                /\ tokens >= OneToken
                /\ c \in DOMAIN buckets'
                /\ buckets'[c] = [tokens |-> tokens - OneToken, last |-> mono]
                /\ \A d \in DOMAIN buckets' \ {c} : d \in DOMAIN buckets /\ buckets'[d] = buckets[d]

\* C2 as stated (Spec): the limiter gates each of the nine operations: a request
\* of a client with fewer than one token after the refill is refused and not
\* executed, and every executed operation has consumed one token of the caller
C2_EveryOperationGated == [][GateStep(PipelineOps \cup MemoryOps)]_vars

\* C2 as amended (Spec): the limiter gates Detect, Clarify, Resolve and Answer;
\* GetMemory, SetMemory, ClearMemory, GetConsent and SetConsent are executed
\* whatever the caller's bucket holds and leave every bucket as it is
C2_PipelineOperationsGated ==
    [][/\ GateStep(PipelineOps)
       /\ req'.op \in MemoryOps => resp'.status = 200 /\ buckets' = buckets]_vars

\* an Answer request refused on an exhausted bucket
C2_Witness ==
    /\ req.op = "answer"
    /\ resp = RateLimited
    /\ req.client \in DOMAIN buckets
    /\ buckets[req.client].tokens < OneToken

\* C3 (SpecReject): a request refused by the rate limiter changes nothing: no
\* bucket, no counter or latency sum, no log line, no row of the preference or
\* consent table (an expired row stays), and its response carries no result
C3_RejectionChangesNothing ==
    [][resp'.status = 429 =>
         /\ req'.op \in PipelineOps
         /\ resp' = RateLimited
         /\ UNCHANGED <<RATE_LIMIT, tasks, db_fault, buckets, counters, log_lines, preferences, consent>>]_vars

\* a Resolve request refused while a preference of the caller is past its expiry
C3_Witness ==
    /\ req.op = "resolve"
    /\ resp = RateLimited
    /\ \E k \in PrefKeys :
          /\ <<req.client, k>> \in DOMAIN preferences
          /\ Expired(preferences[<<req.client, k>>], wall)

\* set stores wall + ttl_ms as the expiry of the row it writes
SetStampsExpiry ==
    req'.op = "store.set" =>
        LET x == <<req'.client, req'.args.key>>
            ttl == req'.args.ttl_ms
        IN /\ x \in DOMAIN preferences'
           /\ preferences'[x].value = req'.args.value
           /\ preferences'[x].expires_at = IF ttl = NULL THEN NULL ELSE wall + ttl

\* a read of get or all_for_user does not return the rows with an expiry that
\* is late, late(expires_at) comparing the expiry of a row with the clock
ReadHides(late(_)) ==
    /\ req'.op = "store.get" =>
          LET x == <<req'.client, req'.args.key>>
          IN x \in DOMAIN preferences /\ preferences[x].expires_at # NULL
             /\ late(preferences[x].expires_at)
             => resp'.body.result = None
    /\ req'.op = "store.all_for_user" =>
          \A k \in PrefKeys :
             LET x == <<req'.client, k>>
             IN x \in DOMAIN preferences /\ preferences[x].expires_at # NULL
                /\ late(preferences[x].expires_at)
                => k \notin DOMAIN resp'.body.result

AtLeastTtlElapsed(expires_at) == wall >= expires_at
MoreThanTtlElapsed(expires_at) == wall > expires_at

\* C4 as stated (SpecStore): a row set with ttl_ms = T at clock reading s has
\* expiry s + T, and a get or all_for_user made when at least T milliseconds
\* have elapsed (the clock reads s + T or more) does not return it
C4_AbsentAfterTtl == [][SetStampsExpiry /\ ReadHides(AtLeastTtlElapsed)]_vars

\* C4 as amended (SpecStore): a row set with ttl_ms = T at clock reading s has
\* expiry s + T; a get or all_for_user made when the millisecond clock reads
\* more than s + T does not return it and deletes it; a read made when the
\* clock reads s + T or less, or of a row without expiry, returns the value and
\* deletes nothing
C4_AbsentPastTtl ==
    [][/\ SetStampsExpiry
       /\ ReadHides(MoreThanTtlElapsed)
       /\ req'.op = "store.get" =>
             LET x == <<req'.client, req'.args.key>>
             IN IF x \notin DOMAIN preferences
                THEN resp'.body.result = None /\ preferences' = preferences
                ELSE IF preferences[x].expires_at # NULL /\ wall > preferences[x].expires_at
                THEN x \notin DOMAIN preferences'
                ELSE resp'.body.result = preferences[x].value /\ preferences' = preferences
       /\ req'.op = "store.all_for_user" =>
             \A k \in PrefKeys :
                LET x == <<req'.client, k>>
                IN x \in DOMAIN preferences =>
                     IF preferences[x].expires_at # NULL /\ wall > preferences[x].expires_at
                     THEN x \notin DOMAIN preferences'
                     ELSE /\ k \in DOMAIN resp'.body.result
                          /\ resp'.body.result[k] = preferences[x].value
                          /\ x \in DOMAIN preferences']_vars

\* a get made at the millisecond of the row's expiry, a full ttl after the set,
\* that returned the value
C4_Witness ==
    /\ req.op = "store.get"
    /\ <<req.client, req.args.key>> \in DOMAIN preferences
    /\ preferences[<<req.client, req.args.key>>].expires_at = wall
    /\ wall >= 1
    /\ resp.body.result = preferences[<<req.client, req.args.key>>].value

\* C5 (SpecPipeline): in Resolve and Answer an answer takes precedence over the
\* stored preference of the same key: the merged map holds the answer's value
\* for every key in both, the result is the one computed without the stored
\* preferences of the answered keys, and stored region IN with answer region US
\* resolves to region US
C5_AnswersWin ==
    [][(req'.op \in {"resolve", "answer"} /\ resp'.status = 200) =>
         LET prefs == all_for_user(preferences, req'.client, wall)
             answers == req'.args.answers
             unanswered == [k \in DOMAIN prefs \ DOMAIN answers |-> prefs[k]]
         IN /\ \A k \in DOMAIN prefs \cap DOMAIN answers :
                  Merge(prefs, answers)[k] = answers[k]
            /\ resp'.body = Lookup(BuildIntentTable, <<req'.args.query, answers, unanswered>>)
            /\ (/\ "region" \in DOMAIN prefs /\ prefs["region"] = <<"I", "N">>
                /\ "region" \in DOMAIN answers /\ answers["region"] = <<"U", "S">>)
               => resp'.body.intent.region = <<"U", "S">>]_vars

\* a Resolve of a caller with stored region IN and answer region US
C5_Witness ==
    /\ req.op = "resolve"
    /\ resp.status = 200
    /\ req.args.answers = [region |-> <<"U", "S">>]
    /\ <<req.client, "region">> \in DOMAIN preferences
    /\ preferences[<<req.client, "region">>].value = <<"I", "N">>
    /\ resp.body.intent.region = <<"U", "S">>

\* the memory of client c as GetMemory reports it when no row has an expiry
StoredOf(table, c) ==
    [k \in {x[2] : x \in {y \in DOMAIN table : y[1] = c}} |-> table[<<c, k>>].value]

\* C6 (SpecMemory): SetMemory stores its keys without expiry and returns the
\* memory with them, the keys set before being kept; GetMemory returns the rows
\* of the caller, whatever the time; a row changes only by a ClearMemory of its
\* identity or a SetMemory of its identity on its key; ClearMemory leaves the
\* caller no row and the rows of every other identity as they are
C6_MemoryOfOneIdentity ==
    /\ [](\A x \in DOMAIN preferences : preferences[x].expires_at = NULL)
    /\ [][/\ req'.op = "set_memory" =>
                LET c == req'.client
                    p == req'.args.prefs
                    before == StoredOf(preferences, c)
                IN /\ resp'.status = 200
                   /\ DOMAIN resp'.body.prefs = DOMAIN before \cup DOMAIN p
                   /\ \A k \in DOMAIN p : resp'.body.prefs[k] = p[k]
                   /\ \A k \in DOMAIN before \ DOMAIN p : resp'.body.prefs[k] = before[k]
                   /\ resp'.body.prefs = StoredOf(preferences', c)
          /\ req'.op = "get_memory" =>
                /\ resp'.status = 200
                /\ resp'.body.prefs = StoredOf(preferences, req'.client)
                /\ preferences' = preferences
          /\ req'.op = "clear_memory" =>
                /\ resp'.status = 200
                /\ StoredOf(preferences', req'.client) = EmptyMap
          /\ \A x \in DOMAIN preferences :
                \/ x \in DOMAIN preferences' /\ preferences'[x] = preferences[x]
                \/ /\ req'.client = x[1]
                   /\ \/ req'.op = "clear_memory"
                      \/ req'.op = "set_memory" /\ x[2] \in DOMAIN req'.args.prefs
          /\ \A x \in DOMAIN preferences' \ DOMAIN preferences :
                /\ req'.op = "set_memory"
                /\ req'.client = x[1]
                /\ x[2] \in DOMAIN req'.args.prefs]_vars

\* a GetMemory, after the clock advanced, that returns the keys of two
\* SetMemory requests while another identity has no row
C6_Witness ==
    /\ req.op = "get_memory"
    /\ wall >= 1
    /\ DOMAIN resp.body.prefs = PrefKeys
    /\ resp.body.prefs["region"] = <<"U", "S">>
    /\ \E c \in Clients : c # req.client /\ StoredOf(preferences, c) = EmptyMap

\* the results of the flow on the query of the test, the answers of Resolve
\* and Answer being the defaults of the questions keyed q1 and q2; stored is
\* the condition on the caller's stored preferences under which Resolve and
\* Answer are claimed to give the prompt
BankFlow(stored(_)) ==
    /\ (req.op = "detect" /\ req.args.query = Q_bank /\ resp.status = 200) =>
          /\ resp.body.ambiguous
          /\ \E i \in 1..Len(resp.body.factors) : resp.body.factors[i] = "criteria_missing"
          /\ \E i \in 1..Len(resp.body.factors) : resp.body.factors[i] = "region_missing"
          /\ \A i \in 1..Len(resp.body.factors) : resp.body.factors[i] # "audience_missing"
    /\ (/\ req.op = "clarify" /\ req.args.query = Q_bank /\ resp.status = 200
        /\ req.args.factors = Lookup(DetectTable, Q_bank).factors) =>
          LET qs == resp.body.questions
          IN /\ Len(qs) = 2
             /\ qs[1].question = "What matters most?" /\ qs[1].default = <<"f", "e", "e", "s">>
             /\ qs[2].question = "Which region?" /\ qs[2].default = <<"I", "N">>
             /\ DefaultAnswers = ("q1" :> qs[1].default) @@ ("q2" :> qs[2].default)
    /\ (/\ req.op \in {"resolve", "answer"} /\ req.args.query = Q_bank /\ resp.status = 200
        /\ req.args.answers = DefaultAnswers
        /\ stored(all_for_user(preferences, req.client, wall))) =>
          /\ resp.body.intent.task_type = "recommend"
          /\ resp.body.intent.risk = "low"
          /\ resp.body.final_prompt =
               <<"R", "e", "c", "o", "m", "m", "e", "n", "d", " ", "s", "u", "i", "t", "a", "b", "l", "e", " ", "o", "p", "t", "i", "o", "n", "s", " ", "i", "n", " ", "I", "N", " ", "o", "p", "t", "i", "m", "i", "s", "e", "d", " ", "f", "o", "r", " ", "l", "o", "w", "e", "s", "t", " ", "f", "e", "e", "s", ".", " ", "E", "x", "p", "l", "a", "i", "n", " ", "t", "r", "a", "d", "e", "-", "o", "f", "f", "s", " ", "a", "n", "d", " ", "a", "s", "s", "u", "m", "p", "t", "i", "o", "n", "s", ".">>

AnyStored(prefs) == TRUE
NoStoredRegionOrCriteria(prefs) ==
    /\ "region" \in DOMAIN prefs => prefs["region"] = <<>>
    /\ "criteria" \in DOMAIN prefs => prefs["criteria"] = <<>>

\* C7 as stated (SpecPipeline): Detect on the query finds criteria_missing and
\* region_missing and not audience_missing, Clarify on those factors asks
\* criteria then region with defaults fees and IN, and Resolve and Answer with
\* those defaults give task recommend, risk low and the prompt of the test
C7_BankFlow == BankFlow(AnyStored)

\* C7 as amended (SpecPipeline): the same, Resolve and Answer giving the prompt
\* when the caller has no stored (non-empty) region or criteria preference
C7_BankFlowWithoutStoredSlots == BankFlow(NoStoredRegionOrCriteria)

\* an Answer with the default answers that gave the prompt of the test
C7_Witness ==
    /\ req.op = "answer"
    /\ req.args.query = Q_bank
    /\ req.args.answers = DefaultAnswers
    /\ resp.status = 200
    /\ resp.body.final_prompt =
         <<"R", "e", "c", "o", "m", "m", "e", "n", "d", " ", "s", "u", "i", "t", "a", "b", "l", "e", " ", "o", "p", "t", "i", "o", "n", "s", " ", "i", "n", " ", "I", "N", " ", "o", "p", "t", "i", "m", "i", "s", "e", "d", " ", "f", "o", "r", " ", "l", "o", "w", "e", "s", "t", " ", "f", "e", "e", "s", ".", " ", "E", "x", "p", "l", "a", "i", "n", " ", "t", "r", "a", "d", "e", "-", "o", "f", "f", "s", " ", "a", "n", "d", " ", "a", "s", "s", "u", "m", "p", "t", "i", "o", "n", "s", ".">>

\* C8 (SpecPure): generate returns the questions of the first two mapped
\* factors of its input, in input order, the other factors taking no slot, and
\* each question has options of which one has the default as id
C8_FirstTwoMappedFactors ==
    (req.op = "generate" /\ resp.status = 200) =>
        LET fs == req.args.factors
            qs == resp.body.result
            M == {i \in 1..Len(fs) : fs[i] \in MappedFactors}
            nth(n) == CHOOSE i \in M : Cardinality({j \in M : j < i}) = n - 1
        IN /\ Len(qs) = Min(2, Cardinality(M))
           /\ \A n \in 1..Len(qs) :
                 /\ qs[n].question = QuestionFor(fs[nth(n)]).question
                 /\ qs[n].options = QuestionFor(fs[nth(n)]).options
                 /\ qs[n].default = QuestionFor(fs[nth(n)]).default
                 /\ qs[n].type = "single_choice"
                 /\ qs[n].options # <<>>
                 /\ \E o \in 1..Len(qs[n].options) : qs[n].options[o].id = qs[n].default

\* generate on an unknown tag followed by a factor given twice: two questions
C8_Witness ==
    /\ req.op = "generate"
    /\ resp.status = 200
    /\ req.args.factors = <<"unknown_tag", "region_missing", "region_missing">>
    /\ Len(resp.body.result) = 2

WhitespaceOnly(query) == \A i \in 1..Len(query) : query[i] \in Whitespace
EmptyQueryResult == [ambiguous |-> TRUE, score |-> 100, factors |-> <<"empty_query">>]

C10_ConsentLastWriteWins ==
    [][/\ req'.op = "get_consent" =>
             /\ resp'.status = 200
             /\ resp'.body.accepted =
                  (req'.client \in DOMAIN consent /\ consent[req'.client].accepted = 1)
       /\ req'.op = "set_consent" =>
             /\ resp'.status = 200
             /\ resp'.body.accepted = req'.args.accepted
             /\ DOMAIN consent' = DOMAIN consent \cup {req'.client}
             /\ consent'[req'.client].accepted = (IF req'.args.accepted THEN 1 ELSE 0)
             /\ \A u \in DOMAIN consent \ {req'.client} : consent'[u] = consent[u]
       /\ req'.op # "set_consent" => consent' = consent]_vars

\* a GetConsent that returns true after the clock advanced past the write,
\* while another identity has refused
C10_Witness ==
    /\ req.op = "get_consent"
    /\ resp.body.accepted = TRUE
    /\ consent[req.client].ts < wall
    /\ \E u \in DOMAIN consent : u # req.client /\ consent[u].accepted = 0

\* the task and the risk that build_intent gives each query without answers
\* and without stored preferences
QueryOnlyIntents ==
    {<<q, build_intent(q, EmptyMap, EmptyMap).intent>> : q \in IntentQueries}

\* C11 (SpecIntent): the task_type and the risk of a resolved intent are those
\* of the query alone, whatever the answers and the stored preferences: the
\* task is one of general, translate, summarize, recommend, the risk low or high
C11_TaskAndRiskOfQueryOnly ==
    (req.op = "build_intent" /\ resp.status = 200) =>
        LET intent == resp.body.result.intent
            alone == Lookup(QueryOnlyIntents, req.args.query)
        IN /\ intent.task_type = alone.task_type
           /\ intent.risk = alone.risk
           /\ intent.task_type \in {"general", "translate", "summarize", "recommend"}
           /\ intent.risk \in {"low", "high"}

\* a low-risk recommendation resolved with a criteria answer that is a
\* high-risk keyword
C11_Witness ==
    /\ req.op = "build_intent"
    /\ req.args.query = Q_bank
    /\ req.args.answers = [criteria |-> <<"m", "e", "d", "i", "c", "a", "l">>]
    /\ resp.status = 200
    /\ resp.body.result.intent.criteria = <<"m", "e", "d", "i", "c", "a", "l">>
    /\ resp.body.result.intent.risk = "low"
    /\ resp.body.result.intent.task_type = "recommend"

\* C12 (SpecFailure): a Resolve or Answer that the limiter admits while the
\* preference lookup fails is answered with the error and nothing else: no
\* intent and no prompt, no resolved_total or answer_total counted, no log
\* line, no row changed
C12_FailedLookupFailsTheCall ==
    [][(req'.op \in {"resolve", "answer"} /\ db_fault /\ resp'.status # 429) =>
         /\ resp' = ServerError
         /\ "intent" \notin DOMAIN resp'.body
         /\ "final_prompt" \notin DOMAIN resp'.body
         /\ counters' = counters
         /\ log_lines' = log_lines
         /\ preferences' = preferences
         /\ consent' = consent]_vars

\* an Answer that failed on the lookup of a caller with a stored region, no
\* Answer having been counted
C12_Witness ==
    /\ req.op = "answer"
    /\ db_fault
    /\ resp = ServerError
    /\ <<req.client, "region">> \in DOMAIN preferences
    /\ counters["answer_total"] = 0

\* the intent slot that a question of the clarifier asks for
SlotOf(question) ==
    CASE question = "What matters most?" -> "criteria"
      [] question = "Which region?" -> "region"
      [] question = "Who is the audience?" -> "audience"
      [] question = "Preferred length?" -> "length"
      [] question = "Target language?" -> "language"

\* C13 (SpecFlow): when the caller, without stored preferences, answers the
\* questions that Clarify returned for the factors of Detect, keyed q1 and q2 by
\* their order, Resolve puts each answer in the intent slot its question asked
\* for
C13_PositionalAnswersHonoured ==
    (req.op = "build_intent" /\ resp.status = 200) =>
        \A i \in 1..Len(req.args.questions) :
            resp.body.result.intent[SlotOf(req.args.questions[i].question)]
                = req.args.answers[AnswerKey(i)]

\* C16 (SpecRate): every bucket holds at least no token and at most RATE_LIMIT
\* tokens, whatever calls were admitted and refused and whatever time elapsed
\* between them
C16_TokensWithinCapacity ==
    \A c \in DOMAIN buckets :
        /\ 0 <= buckets[c].tokens
        /\ buckets[c].tokens <= RATE_LIMIT * OneToken

\* a client whose bucket was refilled and emptied again is refused
C16_Witness ==
    \E c \in DOMAIN buckets :
        /\ req = Request("check_rate", c, <<>>)
        /\ resp = RateLimited
        /\ buckets[c].tokens = 0
        /\ buckets[c].last > 0

\* the requests of client c that check_rate admitted
AdmittedTasks(c) ==
    {t \in DOMAIN tasks : tasks[t].client = c /\ tasks[t].pc = "done" /\ tasks[t].status = 200}

\* C14 (SpecLoop): of the concurrent requests of one client at one instant, at
\* most RATE_LIMIT are admitted, and the client's bucket holds RATE_LIMIT tokens
\* less one for each admitted request: no decrement is lost
C14_NoLostDecrement ==
    \A c \in Clients :
        /\ Cardinality(AdmittedTasks(c)) <= RATE_LIMIT
        /\ c \in DOMAIN buckets =>
             buckets[c].tokens = (RATE_LIMIT - Cardinality(AdmittedTasks(c))) * OneToken

\* two requests of one client were in flight together: the one accepted first
\* was refused after the one accepted later had taken the last token
C14_Witness ==
    \E u, t \in DOMAIN tasks :
        /\ u < t
        /\ tasks[u].client = tasks[t].client
        /\ tasks[u].pc = "done" /\ tasks[u].status = 429
        /\ tasks[t].pc = "done" /\ tasks[t].status = 200
        /\ Cardinality(AdmittedTasks(tasks[t].client)) = RATE_LIMIT

\* C15 (SpecStoreRace): under concurrent callers the purge of get and
\* all_for_user removes only rows that are expired, never a value that a
\* concurrent set wrote at the same (user, key)
C15_PurgeRemovesOnlyExpired ==
    [][req'.op \in {"store.get", "store.all_for_user"} =>
         \A x \in DOMAIN preferences \ DOMAIN preferences' :
             Expired(preferences[x], wall)]_vars

====
